---- MODULE Spec2Model ----
(***************************************************************************)
(* Gaming HID report splitter of ZMK (app/src/hid_gaming.c): the position  *)
(* classifier, the per-device keyboard reports, the position tracking      *)
(* table, the transmission driver, the keepalive work item and the         *)
(* activation flag.                                                        *)
(***************************************************************************)
EXTENDS Integers, Sequences, FiniteSets, TLC

(***************************************************************************)
(* Program constants.                                                      *)
(***************************************************************************)
ZMK_GAMING_DEVICE_COUNT == 8

\* 18 in the header; the model keeps the slot array short enough to fill it.
ZMK_GAMING_MAX_KEYS_PER_DEVICE == 2

GAMING_MAX_POSITIONS == 64

ZMK_HID_GAMING_REPORT_ID_LEFT_HALF == 16

ZMK_GAMING_DEVICE_LEFT_HALF == 0
ZMK_GAMING_DEVICE_GROUP_YU == 1
ZMK_GAMING_DEVICE_GROUP_HJ == 2
ZMK_GAMING_DEVICE_GROUP_NM == 3
ZMK_GAMING_DEVICE_GROUP_REST == 4
ZMK_GAMING_DEVICE_THUMBS == 5
ZMK_GAMING_DEVICE_GROUP_ED == 6
ZMK_GAMING_DEVICE_GROUP_RFV == 7

\* The three send rounds of zmk_hid_gaming_init.
InitRounds == 3

K == ZMK_GAMING_MAX_KEYS_PER_DEVICE

Devices == 0 .. (ZMK_GAMING_DEVICE_COUNT - 1)

Slots == 0 .. (K - 1)

PositionRange == 0 .. (GAMING_MAX_POSITIONS - 1)

Byte == 0 .. 255

\* Values returned to the caller.  A void function returns RET_VOID.
RET_OK == "0"
RET_EINVAL == "-EINVAL"
RET_ENOMEM == "-ENOMEM"
RET_TXERR == "transport error"
RET_VOID == "void"

(***************************************************************************)
(* Inputs the environment draws from.                                      *)
(***************************************************************************)
\* Key codes: zero and one more non-zero code than a device has slots.
KeyArgs == 0 .. (K + 1)

\* Key codes the position entry points are called with.
PositionKeyArgs == {0, 1, 2}

\* Modifier masks.
ModArgs == {2}

\* (device, key) of press and release: every key on device GROUP_YU, and
\* one call with the first device index out of range (uint8_t).
KeyCallArgs ==
    ({ZMK_GAMING_DEVICE_GROUP_YU} \X KeyArgs) \cup {<<ZMK_GAMING_DEVICE_COUNT, 1>>}

\* Device of clear.
DeviceArgs ==
    {ZMK_GAMING_DEVICE_GROUP_YU, ZMK_GAMING_DEVICE_GROUP_REST, ZMK_GAMING_DEVICE_COUNT}
\* Device of the modifier entry points.
ModDeviceArgs == {ZMK_GAMING_DEVICE_GROUP_REST, ZMK_GAMING_DEVICE_COUNT}

\* (position, key) of position_press: the two positions of device GROUP_YU,
\* and one call with the first position out of range.
PositionCallArgs == ({6, 7} \X PositionKeyArgs) \cup {<<GAMING_MAX_POSITIONS, 1>>}

\* Position of position_release.
PositionArgs == {6, 7, GAMING_MAX_POSITIONS}

(***************************************************************************)
(* State.                                                                  *)
(***************************************************************************)
VARIABLES
    gaming_mode_active,   \* static bool gaming_mode_active
    gaming_reports,       \* static struct zmk_gaming_keyboard_report [DEVICE_COUNT]
    gaming_pressed_keys,  \* static uint8_t gaming_pressed_keys[GAMING_MAX_POSITIONS]
    sys_init_done,        \* zmk_hid_gaming_init has run and started the keepalive timer
    ret,                  \* the value the last call returned
    sent,                 \* the buffers the last call handed to the transport, in order
    delivered,            \* per device, the buffer the transport last accepted
    quiet,                \* the key-event source has stopped
    call                  \* where the key-event context stands inside a call, when
                          \* its steps are followed one by one

vars == <<gaming_mode_active, gaming_reports, gaming_pressed_keys, sys_init_done,
          ret, sent, delivered, quiet, call>>

(***************************************************************************)
(* 8-bit arithmetic.                                                       *)
(***************************************************************************)
Pow2(n) == IF n = 0 THEN 1 ELSE IF n = 1 THEN 2 ELSE IF n = 2 THEN 4
           ELSE IF n = 3 THEN 8 ELSE IF n = 4 THEN 16 ELSE IF n = 5 THEN 32
           ELSE IF n = 6 THEN 64 ELSE 128

Bit(x, n) == (x \div Pow2(n)) % 2

RECURSIVE BitsToByte(_, _)
BitsToByte(f, n) == IF n > 7 THEN 0 ELSE f[n] * Pow2(n) + BitsToByte(f, n + 1)

\* a | b on uint8_t
Or8(a, b) == BitsToByte([n \in 0 .. 7 |-> IF Bit(a, n) = 1 \/ Bit(b, n) = 1 THEN 1 ELSE 0], 0)

\* a & ~b on uint8_t
AndNot8(a, b) == BitsToByte([n \in 0 .. 7 |-> IF Bit(a, n) = 1 /\ Bit(b, n) = 0 THEN 1 ELSE 0], 0)

\* Assignment of a wider value to a uint8_t.
U8(x) == x % 256

(***************************************************************************)
(* Device classifier.                                                      *)
(***************************************************************************)
\* Mutant: the switch has no default and unlisted positions fall out of range.
classifier_without_default(position) ==
    CASE position \in {2, 14, 26} -> ZMK_GAMING_DEVICE_LEFT_HALF
      [] position \in {6, 7} -> ZMK_GAMING_DEVICE_GROUP_YU
      [] position \in {18, 19} -> ZMK_GAMING_DEVICE_GROUP_HJ
      [] position \in {30, 31} -> ZMK_GAMING_DEVICE_GROUP_NM
      [] position \in {37, 38, 39, 40, 41, 42} -> ZMK_GAMING_DEVICE_THUMBS
      [] position \in {3, 15} -> ZMK_GAMING_DEVICE_GROUP_ED
      [] position \in {4, 16, 28} -> ZMK_GAMING_DEVICE_GROUP_RFV
      [] position \in {1, 13, 25, 5, 17, 29, 27, 8, 9, 10, 20, 21, 22, 32, 33, 34}
             -> ZMK_GAMING_DEVICE_GROUP_REST
      [] OTHER -> ZMK_GAMING_DEVICE_COUNT

zmk_hid_gaming_get_device_for_position(position) ==
    CASE position \in {2, 14, 26} -> ZMK_GAMING_DEVICE_LEFT_HALF
      [] position \in {6, 7} -> ZMK_GAMING_DEVICE_GROUP_YU
      [] position \in {18, 19} -> ZMK_GAMING_DEVICE_GROUP_HJ
      [] position \in {30, 31} -> ZMK_GAMING_DEVICE_GROUP_NM
      [] position \in {37, 38, 39, 40, 41, 42} -> ZMK_GAMING_DEVICE_THUMBS
      [] position \in {3, 15} -> ZMK_GAMING_DEVICE_GROUP_ED
      [] position \in {4, 16, 28} -> ZMK_GAMING_DEVICE_GROUP_RFV
      [] OTHER -> ZMK_GAMING_DEVICE_GROUP_REST

(***************************************************************************)
(* Reports and the wire buffer.                                            *)
(***************************************************************************)
\* memset(&report, 0, sizeof report)
ZeroKeys == [i \in Slots |-> 0]

\* memset(gaming_pressed_keys, 0, sizeof gaming_pressed_keys); the entry of
\* position p is element p + 1 of the tuple.
NoneTracked == [i \in 1 .. GAMING_MAX_POSITIONS |-> 0]

ZeroReport == [report_id |-> 0, modifiers |-> 0, reserved |-> 0, keys |-> ZeroKeys]

\* (uint8_t *)report of the packed struct: report_id, modifiers, _reserved, keys[0..K-1]
ReportBytes(r) == <<r.report_id, r.modifiers, r.reserved>> \o [i \in 1 .. K |-> r.keys[i - 1]]

\* sizeof(struct zmk_gaming_keyboard_report)
ReportSize == 3 + K

(***************************************************************************)
(* The functions, as operators on a machine value M:                       *)
(*   reports, pressed, active  the three statics                           *)
(*   sent, tx_err, delivered   what the transport was handed and accepted  *)
(*   ret                       the value of the last return statement      *)
(* oks is the set of devices whose sends the transport accepts during the  *)
(* call.                                                                   *)
(***************************************************************************)
\* int zmk_usb_hid_send_report(const uint8_t *report, size_t len)
zmk_usb_hid_send_report(accepted) == IF accepted THEN RET_OK ELSE RET_TXERR

\* Mutant: every buffer carries the first device's report identifier.
send_report_fixed_id(M, device_id, oks) ==
    IF device_id >= ZMK_GAMING_DEVICE_COUNT
    THEN [M EXCEPT !.ret = RET_EINVAL]
    ELSE LET M1 == [M EXCEPT !.reports[device_id].report_id =
                                 U8(ZMK_HID_GAMING_REPORT_ID_LEFT_HALF)]
             buf == ReportBytes(M1.reports[device_id])
             accepted == device_id \in oks
         IN [M1 EXCEPT !.sent = Append(@, [device_id |-> device_id, report |-> buf,
                                           len |-> ReportSize]),
                       !.tx_err = @ \/ ~accepted,
                       !.delivered[device_id] = IF accepted THEN buf ELSE @,
                       !.ret = zmk_usb_hid_send_report(accepted)]

zmk_hid_gaming_send_report(M, device_id, oks) ==
    IF device_id >= ZMK_GAMING_DEVICE_COUNT
    THEN [M EXCEPT !.ret = RET_EINVAL]
    ELSE LET M1 == [M EXCEPT !.reports[device_id].report_id =
                                 U8(ZMK_HID_GAMING_REPORT_ID_LEFT_HALF + device_id)]
             buf == ReportBytes(M1.reports[device_id])
             accepted == device_id \in oks
         IN [M1 EXCEPT !.sent = Append(@, [device_id |-> device_id, report |-> buf,
                                           len |-> ReportSize]),
                       !.tx_err = @ \/ ~accepted,
                       !.delivered[device_id] = IF accepted THEN buf ELSE @,
                       !.ret = zmk_usb_hid_send_report(accepted)]

RECURSIVE zmk_hid_gaming_init_reports_from(_, _)
zmk_hid_gaming_init_reports_from(M, i) ==
    IF i >= ZMK_GAMING_DEVICE_COUNT THEN M
    ELSE zmk_hid_gaming_init_reports_from(
             [M EXCEPT !.reports[i] =
                 [ZeroReport EXCEPT !.report_id = U8(ZMK_HID_GAMING_REPORT_ID_LEFT_HALF + i)]],
             i + 1)

zmk_hid_gaming_init_reports(M) == zmk_hid_gaming_init_reports_from(M, 0)

RECURSIVE press_scan(_, _, _, _, _)
press_scan(M, device_id, key, i, oks) ==
    IF i >= ZMK_GAMING_MAX_KEYS_PER_DEVICE THEN [M EXCEPT !.ret = RET_ENOMEM]
    ELSE IF M.reports[device_id].keys[i] = key THEN [M EXCEPT !.ret = RET_OK]
    ELSE IF M.reports[device_id].keys[i] = 0
         THEN zmk_hid_gaming_send_report(
                  [M EXCEPT !.reports[device_id].keys[i] = U8(key)], device_id, oks)
    ELSE press_scan(M, device_id, key, i + 1, oks)

\* Mutant: a refused send undoes the slot just written.
press_undo_on_failure(M, device_id, key, oks) ==
    IF device_id >= ZMK_GAMING_DEVICE_COUNT THEN [M EXCEPT !.ret = RET_EINVAL]
    ELSE LET R == press_scan(M, device_id, key, 0, oks)
         IN IF R.ret = RET_TXERR THEN [R EXCEPT !.reports = M.reports] ELSE R

\* Mutant: a key that is already held is reported to the host again.
press_resends_held_key(M, device_id, key, oks) ==
    IF device_id >= ZMK_GAMING_DEVICE_COUNT THEN [M EXCEPT !.ret = RET_EINVAL]
    ELSE LET R == press_scan(M, device_id, key, 0, oks)
         IN IF R.sent = M.sent /\ R.ret = RET_OK
            THEN zmk_hid_gaming_send_report(R, device_id, oks)
            ELSE R

\* Mutant: a new key is written into the last slot when that slot is empty.
press_into_last_slot(M, device_id, key, oks) ==
    IF device_id >= ZMK_GAMING_DEVICE_COUNT THEN [M EXCEPT !.ret = RET_EINVAL]
    ELSE LET R == press_scan(M, device_id, key, 0, oks)
             last == ZMK_GAMING_MAX_KEYS_PER_DEVICE - 1
         IN IF R.sent = M.sent THEN R
            ELSE zmk_hid_gaming_send_report(
                     [M EXCEPT !.reports[device_id].keys[last] = U8(key)], device_id, oks)

zmk_hid_gaming_keyboard_press(M, device_id, key, oks) ==
    IF device_id >= ZMK_GAMING_DEVICE_COUNT THEN [M EXCEPT !.ret = RET_EINVAL]
    ELSE press_scan(M, device_id, key, 0, oks)

\* Mutant: the freed slot is zeroed and the later keys are not moved.
shift_down_leaves_gap(keys, i) == [keys EXCEPT ![i] = 0]

\* Mutant: the shift starts at slot 0 instead of slot i.
shift_down_from_zero(keys, i) ==
    [j \in Slots |-> IF j < ZMK_GAMING_MAX_KEYS_PER_DEVICE - 1 THEN keys[j + 1] ELSE 0]

\* for (j = i; j < K - 1; j++) keys[j] = keys[j + 1];  keys[K - 1] = 0;
shift_down(keys, i) ==
    [j \in Slots |-> IF j < i THEN keys[j]
                     ELSE IF j < ZMK_GAMING_MAX_KEYS_PER_DEVICE - 1 THEN keys[j + 1]
                     ELSE 0]

RECURSIVE release_scan(_, _, _, _, _)
release_scan(M, device_id, key, i, oks) ==
    IF i >= ZMK_GAMING_MAX_KEYS_PER_DEVICE THEN [M EXCEPT !.ret = RET_OK]
    ELSE IF M.reports[device_id].keys[i] = key
         THEN zmk_hid_gaming_send_report(
                  [M EXCEPT !.reports[device_id].keys = shift_down(@, i)], device_id, oks)
    ELSE release_scan(M, device_id, key, i + 1, oks)

\* Mutant: the report is sent whether or not the key was found.
release_always_sends(M, device_id, key, oks) ==
    IF device_id >= ZMK_GAMING_DEVICE_COUNT THEN [M EXCEPT !.ret = RET_EINVAL]
    ELSE LET R == release_scan(M, device_id, key, 0, oks)
         IN IF R.sent = M.sent THEN zmk_hid_gaming_send_report(R, device_id, oks) ELSE R

\* Mutant: the report is sent before the slots are compacted.
release_sends_before_shift(M, device_id, key, oks) ==
    IF device_id >= ZMK_GAMING_DEVICE_COUNT THEN [M EXCEPT !.ret = RET_EINVAL]
    ELSE LET S == zmk_hid_gaming_send_report(M, device_id, oks)
             R == release_scan(M, device_id, key, 0, oks)
         IN IF R.sent = M.sent THEN R
            ELSE [R EXCEPT !.sent = S.sent, !.delivered = S.delivered]

zmk_hid_gaming_keyboard_release(M, device_id, key, oks) ==
    IF device_id >= ZMK_GAMING_DEVICE_COUNT THEN [M EXCEPT !.ret = RET_EINVAL]
    ELSE release_scan(M, device_id, key, 0, oks)

\* Mutant: the whole report body is zeroed, modifier byte included.
clear_zeroes_modifiers(M, device_id, oks) ==
    IF device_id >= ZMK_GAMING_DEVICE_COUNT THEN [M EXCEPT !.ret = RET_VOID]
    ELSE [zmk_hid_gaming_send_report(
              [M EXCEPT !.reports[device_id].keys = ZeroKeys,
                        !.reports[device_id].modifiers = 0], device_id, oks)
          EXCEPT !.ret = RET_VOID]

\* Mutant: only the first key slot is zeroed.
clear_first_slot_only(M, device_id, oks) ==
    IF device_id >= ZMK_GAMING_DEVICE_COUNT THEN [M EXCEPT !.ret = RET_VOID]
    ELSE [zmk_hid_gaming_send_report(
              [M EXCEPT !.reports[device_id].keys[0] = 0], device_id, oks)
          EXCEPT !.ret = RET_VOID]

zmk_hid_gaming_keyboard_clear(M, device_id, oks) ==
    IF device_id >= ZMK_GAMING_DEVICE_COUNT THEN [M EXCEPT !.ret = RET_VOID]
    ELSE [zmk_hid_gaming_send_report(
              [M EXCEPT !.reports[device_id].keys = ZeroKeys], device_id, oks)
          EXCEPT !.ret = RET_VOID]

RECURSIVE clear_all_from(_, _, _)
clear_all_from(M, i, oks) ==
    IF i >= ZMK_GAMING_DEVICE_COUNT THEN M
    ELSE clear_all_from(zmk_hid_gaming_keyboard_clear(M, i, oks), i + 1, oks)

\* Mutant: clearing every device also forgets every tracked position.
clear_all_resets_tracking(M, oks) ==
    [clear_all_from(M, 0, oks) EXCEPT !.pressed = NoneTracked]

zmk_hid_gaming_keyboard_clear_all(M, oks) == clear_all_from(M, 0, oks)

\* Mutant: the modifier byte is assigned, not OR-ed.
register_mod_assigns(M, device_id, modifier, oks) ==
    IF device_id >= ZMK_GAMING_DEVICE_COUNT THEN [M EXCEPT !.ret = RET_EINVAL]
    ELSE zmk_hid_gaming_send_report(
             [M EXCEPT !.reports[device_id].modifiers = U8(modifier)], device_id, oks)

zmk_hid_gaming_register_mod(M, device_id, modifier, oks) ==
    IF device_id >= ZMK_GAMING_DEVICE_COUNT THEN [M EXCEPT !.ret = RET_EINVAL]
    ELSE zmk_hid_gaming_send_report(
             [M EXCEPT !.reports[device_id].modifiers = Or8(@, modifier)], device_id, oks)

\* Mutant: the modifier is removed from every device's report.
unregister_mod_on_every_device(M, device_id, modifier, oks) ==
    IF device_id >= ZMK_GAMING_DEVICE_COUNT THEN [M EXCEPT !.ret = RET_EINVAL]
    ELSE zmk_hid_gaming_send_report(
             [M EXCEPT !.reports = [d \in Devices |->
                                       [M.reports[d] EXCEPT !.modifiers = AndNot8(@, modifier)]]],
             device_id, oks)

zmk_hid_gaming_unregister_mod(M, device_id, modifier, oks) ==
    IF device_id >= ZMK_GAMING_DEVICE_COUNT THEN [M EXCEPT !.ret = RET_EINVAL]
    ELSE zmk_hid_gaming_send_report(
             [M EXCEPT !.reports[device_id].modifiers = AndNot8(@, modifier)], device_id, oks)

\* for (i = 0; i < DEVICE_COUNT; i++) zmk_hid_gaming_send_report(i);
RECURSIVE send_all_from(_, _, _)
send_all_from(M, i, oks) ==
    IF i >= ZMK_GAMING_DEVICE_COUNT THEN M
    ELSE CHOOSE R \in {send_all_from(N, i + 1, oks) :
                          N \in {zmk_hid_gaming_send_report(M, i, oks)}} : TRUE

\* Mutant: the flag is not compared with the new value.
set_active_without_guard(M, active, oks) ==
    LET M1 == [M EXCEPT !.active = active]
    IN IF active
       THEN [send_all_from(zmk_hid_gaming_keyboard_clear_all(M1, oks), 0, oks)
             EXCEPT !.ret = RET_VOID]
       ELSE zmk_hid_gaming_keyboard_clear_all(M1, oks)

\* Mutant: the snapshot is also sent when the flag goes off.
set_active_always_snapshots(M, active, oks) ==
    IF M.active # active
    THEN [send_all_from(
              zmk_hid_gaming_keyboard_clear_all([M EXCEPT !.active = active], oks), 0, oks)
          EXCEPT !.ret = RET_VOID]
    ELSE [M EXCEPT !.ret = RET_VOID]

zmk_hid_gaming_set_active(M, active, oks) ==
    IF M.active # active
    THEN LET M1 == [M EXCEPT !.active = active]
         IN IF active
            THEN [send_all_from(zmk_hid_gaming_keyboard_clear_all(M1, oks), 0, oks)
                  EXCEPT !.ret = RET_VOID]
            ELSE zmk_hid_gaming_keyboard_clear_all(M1, oks)
    ELSE [M EXCEPT !.ret = RET_VOID]

\* Mutant: the range check reads > where the code reads >=.
position_press_off_by_one(M, position, key, oks) ==
    IF position > GAMING_MAX_POSITIONS THEN [M EXCEPT !.ret = RET_EINVAL]
    ELSE LET device_id == zmk_hid_gaming_get_device_for_position(position)
         IN zmk_hid_gaming_keyboard_press(
                [M EXCEPT !.pressed[position + 1] = U8(key)], device_id, key, oks)

\* Mutant: the key is pressed and the tracking table is not written.
position_press_without_tracking(M, position, key, oks) ==
    IF position >= GAMING_MAX_POSITIONS THEN [M EXCEPT !.ret = RET_EINVAL]
    ELSE LET device_id == zmk_hid_gaming_get_device_for_position(position)
         IN zmk_hid_gaming_keyboard_press(M, device_id, key, oks)

zmk_hid_gaming_position_press(M, position, key, oks) ==
    IF position >= GAMING_MAX_POSITIONS THEN [M EXCEPT !.ret = RET_EINVAL]
    ELSE LET device_id == zmk_hid_gaming_get_device_for_position(position)
         IN zmk_hid_gaming_keyboard_press(
                [M EXCEPT !.pressed[position + 1] = U8(key)], device_id, key, oks)

\* Mutant: the remembered key is read after the entry has been cleared.
position_release_reads_cleared_entry(M, position, oks) ==
    IF position >= GAMING_MAX_POSITIONS THEN [M EXCEPT !.ret = RET_EINVAL]
    ELSE IF M.pressed[position + 1] = 0 THEN [M EXCEPT !.ret = RET_OK]
    ELSE LET device_id == zmk_hid_gaming_get_device_for_position(position)
             M1 == [M EXCEPT !.pressed[position + 1] = 0]
             key == M1.pressed[position + 1]
         IN zmk_hid_gaming_keyboard_release(M1, device_id, key, oks)

\* Mutant: a position with nothing recorded is released like any other.
position_release_without_guard(M, position, oks) ==
    IF position >= GAMING_MAX_POSITIONS THEN [M EXCEPT !.ret = RET_EINVAL]
    ELSE LET device_id == zmk_hid_gaming_get_device_for_position(position)
             key == M.pressed[position + 1]
         IN zmk_hid_gaming_keyboard_release(
                [M EXCEPT !.pressed[position + 1] = 0], device_id, key, oks)

zmk_hid_gaming_position_release(M, position, oks) ==
    IF position >= GAMING_MAX_POSITIONS THEN [M EXCEPT !.ret = RET_EINVAL]
    ELSE IF M.pressed[position + 1] = 0 THEN [M EXCEPT !.ret = RET_OK]
    ELSE LET device_id == zmk_hid_gaming_get_device_for_position(position)
             key == M.pressed[position + 1]
         IN zmk_hid_gaming_keyboard_release(
                [M EXCEPT !.pressed[position + 1] = 0], device_id, key, oks)

\* Mutant: the tick sends empty reports, as the handler's comment words it.
keepalive_sends_empty(M, oks) ==
    [zmk_hid_gaming_keyboard_clear_all(M, oks) EXCEPT !.ret = RET_VOID]

\* Mutant: the loop stops one device short.
keepalive_skips_last_device(M, oks) ==
    LET R == send_all_from(M, 0, oks \ {ZMK_GAMING_DEVICE_COUNT - 1})
    IN [R EXCEPT !.ret = RET_VOID,
                 !.sent = SubSeq(@, 1, ZMK_GAMING_DEVICE_COUNT - 1)]

gaming_hid_keepalive_work_handler(M, oks) ==
    [send_all_from(M, 0, oks) EXCEPT !.ret = RET_VOID]

\* Mutant: the reports are sent in one round only.
init_single_round(M, j, oks) ==
    IF j >= InitRounds THEN M ELSE send_all_from(M, 0, oks)

RECURSIVE init_rounds_from(_, _, _)
init_rounds_from(M, j, oks) ==
    IF j >= InitRounds THEN M
    ELSE init_rounds_from(send_all_from(M, 0, oks), j + 1, oks)

zmk_hid_gaming_init(M, oks) ==
    LET M1 == zmk_hid_gaming_init_reports(M)
        M2 == [M1 EXCEPT !.pressed = NoneTracked]
    IN [init_rounds_from(M2, 0, oks) EXCEPT !.ret = RET_OK]

(***************************************************************************)
(* The state machine.                                                      *)
(***************************************************************************)
\* The key-event context is between calls.
Idle == [op |-> "idle"]

\* The statics as the program image holds them before any code has run.
Init ==
    /\ gaming_mode_active = TRUE
    /\ gaming_reports = [d \in Devices |-> ZeroReport]
    /\ gaming_pressed_keys = NoneTracked
    /\ sys_init_done = FALSE
    /\ ret = RET_VOID
    /\ sent = <<>>
    /\ delivered = [d \in Devices |-> <<>>]
    /\ quiet = FALSE
    /\ call = Idle

Cur == [reports |-> gaming_reports, pressed |-> gaming_pressed_keys,
        active |-> gaming_mode_active, sent |-> <<>>, tx_err |-> FALSE,
        delivered |-> delivered, ret |-> RET_VOID]

\* host: whether the behaviour also follows what the host has received.
Commit(M, host) ==
    /\ gaming_reports' = M.reports
    /\ gaming_pressed_keys' = M.pressed
    /\ gaming_mode_active' = M.active
    /\ ret' = M.ret
    /\ sent' = M.sent
    /\ delivered' = IF host THEN M.delivered ELSE delivered
    /\ UNCHANGED call

SysInit(oks, host) ==
    /\ ~sys_init_done
    /\ sys_init_done' = TRUE
    /\ \E M \in {zmk_hid_gaming_init(Cur, oks)} : Commit(M, host)
    /\ UNCHANGED quiet

Press(device_id, key, oks, host) ==
    /\ sys_init_done /\ ~quiet
    /\ \E M \in {zmk_hid_gaming_keyboard_press(Cur, device_id, key, oks)} : Commit(M, host)
    /\ UNCHANGED <<sys_init_done, quiet>>

Release(device_id, key, oks, host) ==
    /\ sys_init_done /\ ~quiet
    /\ \E M \in {zmk_hid_gaming_keyboard_release(Cur, device_id, key, oks)} : Commit(M, host)
    /\ UNCHANGED <<sys_init_done, quiet>>

Clear(device_id, oks, host) ==
    /\ sys_init_done /\ ~quiet
    /\ \E M \in {zmk_hid_gaming_keyboard_clear(Cur, device_id, oks)} : Commit(M, host)
    /\ UNCHANGED <<sys_init_done, quiet>>

ClearAll(oks, host) ==
    /\ sys_init_done /\ ~quiet
    /\ \E M \in {zmk_hid_gaming_keyboard_clear_all(Cur, oks)} : Commit(M, host)
    /\ UNCHANGED <<sys_init_done, quiet>>

RegisterMod(device_id, modifier, oks, host) ==
    /\ sys_init_done /\ ~quiet
    /\ \E M \in {zmk_hid_gaming_register_mod(Cur, device_id, modifier, oks)} : Commit(M, host)
    /\ UNCHANGED <<sys_init_done, quiet>>

UnregisterMod(device_id, modifier, oks, host) ==
    /\ sys_init_done /\ ~quiet
    /\ \E M \in {zmk_hid_gaming_unregister_mod(Cur, device_id, modifier, oks)} : Commit(M, host)
    /\ UNCHANGED <<sys_init_done, quiet>>

SetActive(active, oks, host) ==
    /\ sys_init_done /\ ~quiet
    /\ \E M \in {zmk_hid_gaming_set_active(Cur, active, oks)} : Commit(M, host)
    /\ UNCHANGED <<sys_init_done, quiet>>

PositionPress(position, key, oks, host) ==
    /\ sys_init_done /\ ~quiet
    /\ \E M \in {zmk_hid_gaming_position_press(Cur, position, key, oks)} : Commit(M, host)
    /\ UNCHANGED <<sys_init_done, quiet>>

PositionRelease(position, oks, host) ==
    /\ sys_init_done /\ ~quiet
    /\ \E M \in {zmk_hid_gaming_position_release(Cur, position, oks)} : Commit(M, host)
    /\ UNCHANGED <<sys_init_done, quiet>>

\* gaming_hid_keepalive_timer expires and the work item runs.
KeepaliveTick(oks, host) ==
    /\ sys_init_done
    /\ \E M \in {gaming_hid_keepalive_work_handler(Cur, oks)} : Commit(M, host)
    /\ UNCHANGED <<sys_init_done, quiet>>

\* Transport outcomes of one call: every send accepted, or every send refused.
AllOrNone == {Devices, {}}

Next ==
    \/ \E oks \in AllOrNone : SysInit(oks, FALSE)
    \/ \E c \in KeyCallArgs, oks \in AllOrNone : Press(c[1], c[2], oks, FALSE)
    \/ \E c \in KeyCallArgs, oks \in AllOrNone : Release(c[1], c[2], oks, FALSE)
    \/ \E d \in DeviceArgs, oks \in AllOrNone : Clear(d, oks, FALSE)
    \/ \E oks \in AllOrNone : ClearAll(oks, FALSE)
    \/ \E d \in ModDeviceArgs, m \in ModArgs, oks \in AllOrNone : RegisterMod(d, m, oks, FALSE)
    \/ \E d \in ModDeviceArgs, m \in ModArgs, oks \in AllOrNone : UnregisterMod(d, m, oks, FALSE)
    \/ \E a \in BOOLEAN, oks \in AllOrNone : SetActive(a, oks, FALSE)
    \/ \E c \in PositionCallArgs, oks \in AllOrNone : PositionPress(c[1], c[2], oks, FALSE)
    \/ \E p \in PositionArgs, oks \in AllOrNone : PositionRelease(p, oks, FALSE)
    \/ \E oks \in AllOrNone : KeepaliveTick(oks, FALSE)

Spec == Init /\ [][Next]_vars

(***************************************************************************)
(* The machine together with the host: delivered follows what the          *)
(* transport accepted, each send of a call is accepted or refused on its   *)
(* own, and the key-event source may stop for good.  The keepalive timer   *)
(* is periodic, so ticks keep coming; the transport is taken to accept     *)
(* each device's report again and again.                                   *)
(***************************************************************************)
\* Devices whose sends the transport refuses on their own.
Flaky == {ZMK_GAMING_DEVICE_GROUP_YU, ZMK_GAMING_DEVICE_GROUP_RFV}

\* Transport outcomes of one call: everything refused, or everything
\* accepted but some of the flaky devices' sends.
Outcomes == {{}} \cup {Devices \ S : S \in SUBSET Flaky}

\* Positions and keys of the key events: position 6 routes to GROUP_YU.
LivePositions == {6}

LiveKeyArgs == {1, 2}

Stop ==
    /\ sys_init_done /\ ~quiet
    /\ quiet' = TRUE
    /\ UNCHANGED <<gaming_mode_active, gaming_reports, gaming_pressed_keys,
                   sys_init_done, ret, sent, delivered, call>>

Tick == \E oks \in Outcomes : KeepaliveTick(oks, TRUE)

TickAccepting(d) == \E oks \in Outcomes : d \in oks /\ KeepaliveTick(oks, TRUE)

LiveNext ==
    \/ \E oks \in Outcomes : SysInit(oks, TRUE)
    \/ \E p \in LivePositions, k \in LiveKeyArgs, oks \in AllOrNone :
           PositionPress(p, k, oks, TRUE)
    \/ \E p \in LivePositions, oks \in AllOrNone : PositionRelease(p, oks, TRUE)
    \/ Tick
    \/ Stop

LiveSpec ==
    /\ Init
    /\ [][LiveNext]_vars
    /\ \A d \in Devices : SF_vars(TickAccepting(d))

(***************************************************************************)
(* Vocabulary of the properties.                                           *)
(***************************************************************************)
YU == ZMK_GAMING_DEVICE_GROUP_YU

REST == ZMK_GAMING_DEVICE_GROUP_REST

KeysOf(d) == gaming_reports[d].keys

\* gaming_pressed_keys[p]
TrackedAt(p) == gaming_pressed_keys[p + 1]

\* The non-zero key codes in a slot array.
HeldKeys(keys) == {keys[i] : i \in Slots} \ {0}

Occupied(keys) == Cardinality({i \in Slots : keys[i] # 0})

NoDuplicate(keys) ==
    \A i, j \in Slots : (i # j /\ keys[i] # 0) => keys[i] # keys[j]

NoGap(keys) ==
    \A i, j \in Slots : (i < j /\ keys[i] = 0) => keys[j] = 0

\* The slot array as the sequence of its non-zero codes, in slot order.
RECURSIVE HeldFrom(_, _)
HeldFrom(keys, i) ==
    IF i >= K THEN <<>>
    ELSE (IF keys[i] = 0 THEN <<>> ELSE <<keys[i]>>) \o HeldFrom(keys, i + 1)

HeldSeq(keys) == HeldFrom(keys, 0)

\* A sequence of codes laid out from slot 0, zero-padded.
Padded(seq) == [i \in Slots |-> IF i < Len(seq) THEN seq[i + 1] ELSE 0]

\* seq without the code k, order kept.
Without(seq, k) == SelectSeq(seq, LAMBDA x : x # k)

IdOf(d) == ZMK_HID_GAMING_REPORT_ID_LEFT_HALF + d

\* The state zmk_hid_gaming_init leaves.
EmptyReport(d) == [report_id |-> IdOf(d), modifiers |-> 0, reserved |-> 0, keys |-> ZeroKeys]

Fresh ==
    /\ sys_init_done
    /\ gaming_reports = [d \in Devices |-> EmptyReport(d)]
    /\ gaming_pressed_keys = NoneTracked

(***************************************************************************)
(* C1.  In every reachable state, each device's key slots hold no non-zero *)
(* key code twice and no zero slot is followed by a non-zero slot.         *)
(***************************************************************************)
C1_SlotInvariant ==
    \A d \in Devices : NoDuplicate(KeysOf(d)) /\ NoGap(KeysOf(d))

\* Device GROUP_YU is full, its keys not in ascending order.
C1_Witness ==
    /\ Occupied(KeysOf(YU)) = K
    /\ KeysOf(YU)[0] > KeysOf(YU)[1]
    /\ Len(sent) = 1

(***************************************************************************)
(* C2.  A press of a non-zero key that the device does not hold succeeds   *)
(* (returns 0 and stores the key) while fewer than K slots are occupied;   *)
(* with all K slots occupied it returns -ENOMEM, leaves every report       *)
(* unchanged and hands nothing to the transport.                           *)
(***************************************************************************)
C2_Capacity ==
    [][\A k \in KeyArgs \ {0}, oks \in AllOrNone :
          (Press(YU, k, oks, FALSE) /\ k \notin HeldKeys(KeysOf(YU))) =>
              IF Occupied(KeysOf(YU)) < K
              THEN /\ ret' = RET_OK
                   /\ HeldSeq(KeysOf(YU)') = Append(HeldSeq(KeysOf(YU)), k)
              ELSE /\ ret' = RET_ENOMEM
                   /\ gaming_reports' = gaming_reports
                   /\ sent' = <<>>]_vars

\* The part of C2 about the full device alone.
C2_FullDeviceRejects ==
    [][\A k \in KeyArgs \ {0}, oks \in AllOrNone :
          (/\ Press(YU, k, oks, FALSE)
           /\ k \notin HeldKeys(KeysOf(YU))
           /\ Occupied(KeysOf(YU)) = K) =>
              /\ ret' = RET_ENOMEM
              /\ gaming_reports' = gaming_reports
              /\ sent' = <<>>]_vars

(***************************************************************************)
(* C3.  press(d, k) followed by one or two release(d, k) leaves device d's *)
(* key slots as they were before the press.                                *)
(***************************************************************************)
AfterPressRelease(k, o1, o2) ==
    zmk_hid_gaming_keyboard_release(
        zmk_hid_gaming_keyboard_press(Cur, YU, k, o1), YU, k, o2)

AfterPressReleaseRelease(k, o1, o2, o3) ==
    zmk_hid_gaming_keyboard_release(AfterPressRelease(k, o1, o2), YU, k, o3)

RoundTrip(k) ==
    \A o1, o2, o3 \in AllOrNone :
        /\ AfterPressRelease(k, o1, o2).reports[YU].keys = KeysOf(YU)
        /\ AfterPressReleaseRelease(k, o1, o2, o3).reports[YU].keys = KeysOf(YU)

\* As claimed: for every key.
C3_RoundTripAnyKey == \A k \in KeyArgs : RoundTrip(k)

\* Amended: for every key the device does not already hold.
C3_RoundTrip == \A k \in KeyArgs : k \notin HeldKeys(KeysOf(YU)) => RoundTrip(k)

\* The device holds one key, has a free slot, and a call has just sent its report.
C3_Witness ==
    /\ Occupied(KeysOf(YU)) = 1
    /\ Len(sent) = 1 /\ sent[1].device_id = YU
    /\ ret = RET_OK

(***************************************************************************)
(* C4.  In every state after init: position_press(p, k) remembers k for p; *)
(* no call other than a position call at p changes what is remembered;     *)
(* position_release(p) removes exactly the remembered code from device     *)
(* classify(p), keeps the order of the other keys, and sets the entry of   *)
(* p to none.                                                              *)
(* From the state init leaves, the press makes the device's report         *)
(* {id = BASE + classify(p), mods = 0, k, 0, ...}, and the release returns *)
(* it to all-zero keys under the same report id.                           *)
(***************************************************************************)
ValidPositionArgs == {p \in PositionArgs : p < GAMING_MAX_POSITIONS}

\* M leaves every tracking entry but that of position q as it was.
KeepsEntriesBut(M, q) ==
    \A p \in PositionRange \ {q} : M.pressed[p + 1] = TrackedAt(p)

\* No call changes the entry of a position other than the one it is called with.
OtherCallsKeepEntries(oks) ==
    /\ \A c \in KeyCallArgs :
           /\ zmk_hid_gaming_keyboard_press(Cur, c[1], c[2], oks).pressed = gaming_pressed_keys
           /\ zmk_hid_gaming_keyboard_release(Cur, c[1], c[2], oks).pressed = gaming_pressed_keys
    /\ \A d \in DeviceArgs :
           zmk_hid_gaming_keyboard_clear(Cur, d, oks).pressed = gaming_pressed_keys
    /\ zmk_hid_gaming_keyboard_clear_all(Cur, oks).pressed = gaming_pressed_keys
    /\ \A d \in ModDeviceArgs, m \in ModArgs :
           /\ zmk_hid_gaming_register_mod(Cur, d, m, oks).pressed = gaming_pressed_keys
           /\ zmk_hid_gaming_unregister_mod(Cur, d, m, oks).pressed = gaming_pressed_keys
    /\ \A a \in BOOLEAN :
           zmk_hid_gaming_set_active(Cur, a, oks).pressed = gaming_pressed_keys
    /\ gaming_hid_keepalive_work_handler(Cur, oks).pressed = gaming_pressed_keys
    /\ \A q \in PositionArgs :
           /\ KeepsEntriesBut(zmk_hid_gaming_position_release(Cur, q, oks), q)
           /\ \A k \in PositionKeyArgs :
                  KeepsEntriesBut(zmk_hid_gaming_position_press(Cur, q, k, oks), q)

C4_PositionRoundTrip ==
    sys_init_done =>
        \A oks \in AllOrNone :
          /\ OtherCallsKeepEntries(oks)
          /\ \A p \in ValidPositionArgs :
                LET d == zmk_hid_gaming_get_device_for_position(p)
                    k0 == TrackedAt(p)
                    R == zmk_hid_gaming_position_release(Cur, p, oks)
                IN /\ \A k \in PositionKeyArgs :
                          LET P == zmk_hid_gaming_position_press(Cur, p, k, oks)
                          IN /\ P.pressed[p + 1] = k
                             /\ (Fresh /\ k # 0) =>
                                    /\ P.reports[d] =
                                           [EmptyReport(d) EXCEPT !.keys = Padded(<<k>>)]
                                    /\ \A o2 \in AllOrNone :
                                           LET Q == zmk_hid_gaming_position_release(P, p, o2)
                                           IN /\ Q.reports[d] = EmptyReport(d)
                                              /\ Q.pressed = NoneTracked
                   /\ k0 # 0 =>
                          /\ HeldSeq(R.reports[d].keys) = Without(HeldSeq(KeysOf(d)), k0)
                          /\ NoGap(R.reports[d].keys)
                          /\ R.reports[d].report_id = IdOf(d)
                          /\ R.reports[d].modifiers = gaming_reports[d].modifiers
                          /\ R.pressed = [gaming_pressed_keys EXCEPT ![p + 1] = 0]

\* A release has just taken the last key out of device GROUP_YU: its report is
\* back to all-zero keys under its own id, and no position is tracked.
C4_Witness ==
    /\ sys_init_done
    /\ ret = RET_OK
    /\ sent = <<[device_id |-> YU, report |-> ReportBytes(EmptyReport(YU)),
                 len |-> ReportSize]>>
    /\ gaming_reports[YU] = EmptyReport(YU)
    /\ gaming_pressed_keys = NoneTracked

(***************************************************************************)
(* C5.  A call with a device index >= DEVICE_COUNT or a position >=        *)
(* GAMING_MAX_POSITIONS changes no report, no tracking entry and not the   *)
(* activation flag, and hands nothing to the transport; press, release,    *)
(* the modifier calls and the position calls return -EINVAL, and clear,    *)
(* a void function, returns no value.                                      *)
(***************************************************************************)
NoEffect(M) ==
    /\ M.reports = gaming_reports
    /\ M.pressed = gaming_pressed_keys
    /\ M.active = gaming_mode_active
    /\ M.sent = <<>>

BadDevices == {ZMK_GAMING_DEVICE_COUNT, 255}

BadPositions == {GAMING_MAX_POSITIONS, GAMING_MAX_POSITIONS + 1}

\* The machine after each out-of-range call of an entry point that returns int.
InvalidIntCalls(oks) ==
    {zmk_hid_gaming_keyboard_press(Cur, d, k, oks) : d \in BadDevices, k \in KeyArgs}
        \cup
    {zmk_hid_gaming_keyboard_release(Cur, d, k, oks) : d \in BadDevices, k \in KeyArgs}
        \cup
    {zmk_hid_gaming_register_mod(Cur, d, m, oks) : d \in BadDevices, m \in ModArgs}
        \cup
    {zmk_hid_gaming_unregister_mod(Cur, d, m, oks) : d \in BadDevices, m \in ModArgs}
        \cup
    {zmk_hid_gaming_position_press(Cur, p, k, oks) : p \in BadPositions, k \in PositionKeyArgs}
        \cup
    {zmk_hid_gaming_position_release(Cur, p, oks) : p \in BadPositions}

\* The machine after each out-of-range call of clear.
InvalidClearCalls(oks) ==
    {zmk_hid_gaming_keyboard_clear(Cur, d, oks) : d \in BadDevices}

\* As claimed: each of them, clear included, fails with the invalid-argument value.
C5_InvalidArgsAllFail ==
    sys_init_done =>
        \A oks \in AllOrNone :
            \A M \in InvalidIntCalls(oks) \cup InvalidClearCalls(oks) :
                M.ret = RET_EINVAL /\ NoEffect(M)

\* Amended: clear returns nothing; the others return the invalid-argument value.
C5_InvalidArgs ==
    sys_init_done =>
        \A oks \in AllOrNone :
            /\ \A M \in InvalidIntCalls(oks) : M.ret = RET_EINVAL /\ NoEffect(M)
            /\ \A M \in InvalidClearCalls(oks) : M.ret = RET_VOID /\ NoEffect(M)

\* A call was rejected as invalid while a key was held and a position tracked.
C5_Witness ==
    /\ ret = RET_EINVAL
    /\ sent = <<>>
    /\ Occupied(KeysOf(YU)) >= 1
    /\ TrackedAt(6) # 0

(***************************************************************************)
(* C6.  A tracking entry goes from none to a key only in a position_press  *)
(* at that position that was routed to a device (not rejected), and a      *)
(* position_release sets it back to none.                                  *)
(***************************************************************************)
IsPositionPressAt(p) ==
    \E c \in PositionCallArgs, o \in AllOrNone :
        c[1] = p /\ PositionPress(c[1], c[2], o, FALSE)

IsPositionReleaseAt(p) == \E o \in AllOrNone : PositionRelease(p, o, FALSE)

C6_TrackedOnlyIfRouted ==
    [][\A p \in PositionRange :
          /\ (TrackedAt(p) = 0 /\ TrackedAt(p)' # 0) =>
                 (IsPositionPressAt(p) /\ ret' \notin {RET_EINVAL, RET_ENOMEM})
          /\ IsPositionReleaseAt(p) => TrackedAt(p)' = 0]_vars

(***************************************************************************)
(* C7.  Every buffer handed to the transport is 3 + K bytes: the report id *)
(* BASE_ID + device index (distinct for distinct devices), the modifier    *)
(* byte, a reserved byte 0x00, and the device's K key slots with all zero  *)
(* bytes after the last occupied slot.                                     *)
(***************************************************************************)
KeyBytes(buf) == [i \in Slots |-> buf[4 + i]]

C7_WireFormat ==
    /\ \A n \in 1 .. Len(sent) :
           LET e == sent[n]
           IN /\ e.device_id \in Devices
              /\ e.len = 3 + K
              /\ Len(e.report) = e.len
              /\ e.report[1] = ZMK_HID_GAMING_REPORT_ID_LEFT_HALF + e.device_id
              /\ e.report[2] = gaming_reports[e.device_id].modifiers
              /\ e.report[3] = 0
              /\ KeyBytes(e.report) = KeysOf(e.device_id)
              /\ NoGap(KeyBytes(e.report))
    /\ \A n, m \in 1 .. Len(sent) :
           sent[n].device_id # sent[m].device_id => sent[n].report[1] # sent[m].report[1]

\* Every device's report was sent in one call while device GROUP_YU held a key
\* followed by zero padding and GROUP_REST held a modifier.
C7_Witness ==
    /\ Len(sent) = ZMK_GAMING_DEVICE_COUNT
    /\ sent[YU + 1].report[4] # 0
    /\ sent[YU + 1].report[3 + K] = 0
    /\ sent[REST + 1].report[2] # 0

(***************************************************************************)
(* C8.  A keepalive tick, in any state after init and whatever the         *)
(* transport answers, hands the transport exactly one buffer per device,   *)
(* in device order, carrying that device's current report, and changes no  *)
(* report, no tracking entry and not the activation flag.                  *)
(***************************************************************************)
TickOutcomes == AllOrNone \cup {{YU}, Devices \ {YU}}

Refused == {}

C9_NoRollback ==
    sys_init_done =>
        \A d \in {YU, REST}, k \in KeyArgs \ {0}, m \in ModArgs :
            LET keys == KeysOf(d)
                P == zmk_hid_gaming_keyboard_press(Cur, d, k, Refused)
                R == zmk_hid_gaming_keyboard_release(Cur, d, k, Refused)
                C == zmk_hid_gaming_keyboard_clear(Cur, d, Refused)
                G == zmk_hid_gaming_register_mod(Cur, d, m, Refused)
                U == zmk_hid_gaming_unregister_mod(Cur, d, m, Refused)
            IN /\ (k \notin HeldKeys(keys) /\ Occupied(keys) < K) =>
                      /\ P.tx_err /\ P.ret = RET_TXERR
                      /\ HeldSeq(P.reports[d].keys) = Append(HeldSeq(keys), k)
               /\ (k \in HeldKeys(keys)) =>
                      /\ R.tx_err /\ R.ret = RET_TXERR
                      /\ HeldSeq(R.reports[d].keys) = Without(HeldSeq(keys), k)
               /\ C.tx_err /\ C.reports[d].keys = ZeroKeys
               /\ G.tx_err /\ G.ret = RET_TXERR
               /\ U.tx_err /\ U.ret = RET_TXERR
               /\ \A n \in 0 .. 7 :
                      Bit(m, n) = 1 => /\ Bit(G.reports[d].modifiers, n) = 1
                                       /\ Bit(U.reports[d].modifiers, n) = 0

\* A press was refused by the transport and the key is in the report.
C9_Witness ==
    /\ ret = RET_TXERR
    /\ Len(sent) = 1 /\ sent[1].device_id = YU
    /\ Occupied(KeysOf(YU)) = K
    /\ KeyBytes(sent[1].report) = KeysOf(YU)

(***************************************************************************)
(* C10.  Once key events have stopped, every device's last delivered       *)
(* buffer eventually equals its in-memory report and stays equal, under    *)
(* fair ticks and a transport that accepts each device's report            *)
(* infinitely often.                                                       *)
(***************************************************************************)
Converged == \A d \in Devices : delivered[d] = ReportBytes(gaming_reports[d])

C10_Convergence == [](quiet => <>[]Converged)

\* Key events have stopped with a key held, and the host has device
\* GROUP_YU's report although the press's own send was refused.
C10_Witness ==
    /\ quiet
    /\ Converged
    /\ Occupied(KeysOf(YU)) >= 1
    /\ Len(sent) = ZMK_GAMING_DEVICE_COUNT

(***************************************************************************)
(* C11.  In every state after init, set_active(v) with v equal to the      *)
(* activation flag changes no report, no tracking entry and not the flag   *)
(* and hands nothing to the transport; a second set_active(v) right after  *)
(* a first one adds nothing to what the first did.                         *)
(***************************************************************************)
SameMachine(M, N) ==
    /\ N.reports = M.reports
    /\ N.pressed = M.pressed
    /\ N.active = M.active
    /\ N.sent = M.sent

C11_SetActiveSameValue ==
    sys_init_done =>
        \A oks \in AllOrNone :
            /\ LET M == zmk_hid_gaming_set_active(Cur, gaming_mode_active, oks)
               IN M.ret = RET_VOID /\ NoEffect(M)
            /\ \A v \in BOOLEAN, o2 \in AllOrNone :
                   LET M1 == zmk_hid_gaming_set_active(Cur, v, oks)
                   IN SameMachine(M1, zmk_hid_gaming_set_active(M1, v, o2))

\* The flag is off, a key is held, and the last call returned nothing and
\* handed nothing to the transport.
C11_Witness ==
    /\ sys_init_done
    /\ ~gaming_mode_active
    /\ Occupied(KeysOf(YU)) >= 1
    /\ ret = RET_VOID
    /\ sent = <<>>

(***************************************************************************)
(* C12.  In every state after init, set_active(v) with v different from    *)
(* the flag sets the flag and first hands over one buffer per device, in   *)
(* device order, each with all key bytes zero; when v is true it then      *)
(* hands over exactly one more buffer per device.  Every buffer has all    *)
(* key bytes zero and carries the device's modifier byte, which the call   *)
(* leaves as it was.                                                       *)
(***************************************************************************)
\* The buffer of device d with all key bytes zero and modifier byte mods.
ClearedBuffer(d, mods) == <<IdOf(d), mods, 0>> \o [i \in 1 .. K |-> 0]

\* The buffers from index first are one per device, in device order, each
\* ClearedBuffer with the modifier byte zero (zero_mods) or the device's own.
OnePerDeviceFrom(M, first, zero_mods) ==
    \A d \in Devices :
        /\ M.sent[first + d].device_id = d
        /\ M.sent[first + d].report =
               ClearedBuffer(d, IF zero_mods THEN 0 ELSE gaming_reports[d].modifiers)

SetActiveToggles(zero_mods) ==
    sys_init_done =>
        \A oks \in AllOrNone :
            LET v == ~gaming_mode_active
                M == zmk_hid_gaming_set_active(Cur, v, oks)
            IN /\ M.active = v
               /\ M.ret = RET_VOID
               /\ OnePerDeviceFrom(M, 1, zero_mods)
               /\ Len(M.sent) = IF v THEN 2 * ZMK_GAMING_DEVICE_COUNT
                                     ELSE ZMK_GAMING_DEVICE_COUNT
               /\ v => OnePerDeviceFrom(M, ZMK_GAMING_DEVICE_COUNT + 1, zero_mods)
               /\ \A d \in Devices :
                      /\ M.reports[d].keys = ZeroKeys
                      /\ M.reports[d].modifiers = gaming_reports[d].modifiers

C13_PressHeldKey ==
    sys_init_done =>
        \A d \in {YU, REST}, oks \in AllOrNone :
            \A k \in HeldKeys(KeysOf(d)) :
                LET M == zmk_hid_gaming_keyboard_press(Cur, d, k, oks)
                IN M.ret = RET_OK /\ NoEffect(M)

\* Device GROUP_YU is full, and the last call was a press that returned 0 and
\* handed nothing to the transport.
C13_Witness ==
    /\ sys_init_done
    /\ Occupied(KeysOf(YU)) = K
    /\ ret = RET_OK
    /\ sent = <<>>
    /\ gaming_pressed_keys = NoneTracked

(***************************************************************************)
(* C14.  In every state after init, release(d, k) with no slot of device d *)
(* equal to k returns 0, changes no report, no tracking entry and not the  *)
(* flag, and hands nothing to the transport.  Key value 0 equals every     *)
(* empty slot: it is in no slot only when the device is full.              *)
(***************************************************************************)
InNoSlot(keys, k) == \A i \in Slots : keys[i] # k

\* As claimed: for every key value that the device does not hold, 0 included.
C14_ReleaseAnyAbsentKey ==
    sys_init_done =>
        \A d \in {YU, REST}, k \in KeyArgs, oks \in AllOrNone :
            k \notin HeldKeys(KeysOf(d)) =>
                LET M == zmk_hid_gaming_keyboard_release(Cur, d, k, oks)
                IN M.ret = RET_OK /\ NoEffect(M)

\* Amended: for every key value that is in no slot.
C14_ReleaseAbsentKey ==
    sys_init_done =>
        \A d \in {YU, REST}, k \in KeyArgs, oks \in AllOrNone :
            InNoSlot(KeysOf(d), k) =>
                LET M == zmk_hid_gaming_keyboard_release(Cur, d, k, oks)
                IN M.ret = RET_OK /\ NoEffect(M)

\* Device GROUP_YU holds one key and a position is tracked; the last call
\* returned 0 and handed nothing to the transport.
C14_Witness ==
    /\ sys_init_done
    /\ Occupied(KeysOf(YU)) = 1
    /\ TrackedAt(6) # 0
    /\ ret = RET_OK
    /\ sent = <<>>


(***************************************************************************)
(* C15.  In every state after init, release(d, k) with k in slot i of     *)
(* device d (i the first such slot) leaves the slots before i as they     *)
(* were, moves every later entry left by one, zeroes the last slot, keeps *)
(* the modifier byte, every other report and the tracking table, and      *)
(* hands the transport exactly one buffer: device d's report as it is     *)
(* after the compaction.                                                   *)
(***************************************************************************)
FirstSlotOf(keys, k) == CHOOSE i \in Slots : keys[i] = k /\ \A j \in Slots : j < i => keys[j] # k

OneSendOf(M, d) ==
    /\ Len(M.sent) = 1
    /\ M.sent[1].device_id = d
    /\ M.sent[1].report = ReportBytes(M.reports[d])
    /\ M.sent[1].len = ReportSize

OnlyKeysOf(M, d) ==
    /\ \A e \in Devices \ {d} : M.reports[e] = gaming_reports[e]
    /\ M.reports[d] = [gaming_reports[d] EXCEPT !.keys = M.reports[d].keys]
    /\ M.pressed = gaming_pressed_keys
    /\ M.active = gaming_mode_active

KeyCodes == KeyArgs \ {0}

C16_PressAppends ==
    sys_init_done =>
        \A d \in {YU, REST}, k \in KeyCodes, oks \in AllOrNone :
            (k \notin HeldKeys(KeysOf(d)) /\ Occupied(KeysOf(d)) < K) =>
                LET n == Occupied(KeysOf(d))
                    M == zmk_hid_gaming_keyboard_press(Cur, d, k, oks)
                    after == M.reports[d].keys
                IN /\ KeysOf(d)[n] = 0
                   /\ \A j \in Slots : j < n => KeysOf(d)[j] # 0
                   /\ after = [KeysOf(d) EXCEPT ![n] = k]
                   /\ HeldSeq(after) = Append(HeldSeq(KeysOf(d)), k)
                   /\ OnlyKeysOf(M, d)
                   /\ OneSendOf(M, d)

\* A second key has been pressed while the first is held: the report sent
\* carries the earlier key in slot 0 and the later one in slot 1.
C16_Witness ==
    /\ sys_init_done
    /\ Len(sent) = 1
    /\ sent[1].device_id = YU
    /\ sent[1].report[4] = TrackedAt(6)
    /\ sent[1].report[5] = TrackedAt(7)
    /\ TrackedAt(6) # 0
    /\ TrackedAt(7) # 0
    /\ TrackedAt(6) # TrackedAt(7)

(***************************************************************************)
(* C17.  In every state after init, position_release(p) for an in-range   *)
(* position p with nothing recorded in the tracking table returns 0,      *)
(* changes no report, no tracking entry and not the flag, and hands       *)
(* nothing to the transport.                                               *)
(***************************************************************************)
\* The two positions that calls are made with, and the ends of the range,
\* which no call is ever made with.
UntrackedSamples == ValidPositionArgs \cup {0, GAMING_MAX_POSITIONS - 1}

C17_ReleaseUntrackedPosition ==
    sys_init_done =>
        \A p \in UntrackedSamples, oks \in AllOrNone :
            TrackedAt(p) = 0 =>
                LET M == zmk_hid_gaming_position_release(Cur, p, oks)
                IN M.ret = RET_OK /\ NoEffect(M)

\* Position 6 is released and the key of position 7 is held in slot 0; the
\* last call, such as a second release of position 6, returned 0 and sent
\* nothing.
C17_Witness ==
    /\ sys_init_done
    /\ TrackedAt(6) = 0
    /\ TrackedAt(7) # 0
    /\ KeysOf(YU)[0] = TrackedAt(7)
    /\ Occupied(KeysOf(YU)) = 1
    /\ ret = RET_OK
    /\ sent = <<>>

(***************************************************************************)
(* C18.  In every state after init, register_mod(d, m) leaves device d's  *)
(* modifier byte with exactly the bits set that were set before or are    *)
(* set in m, and unregister_mod(d, m) with exactly the bits that were set *)
(* before and are not set in m; the byte stays within 8 bits.  A second   *)
(* identical call leaves the reports as the first did.  Neither call      *)
(* changes a key slot, another report or the tracking table, and each     *)
(* hands the transport exactly one buffer: device d's report with the new *)
(* modifier byte.                                                          *)
(***************************************************************************)
ModSamples == {1, 2, 129}

OnlyModifiersOf(M, d) ==
    /\ \A e \in Devices \ {d} : M.reports[e] = gaming_reports[e]
    /\ M.reports[d] = [gaming_reports[d] EXCEPT !.modifiers = M.reports[d].modifiers]
    /\ M.pressed = gaming_pressed_keys
    /\ M.active = gaming_mode_active

C18_ModifierBits ==
    sys_init_done =>
        \A d \in {YU, REST}, m \in ModSamples :
            LET old == gaming_reports[d].modifiers
                R == zmk_hid_gaming_register_mod(Cur, d, m, Devices)
                U == zmk_hid_gaming_unregister_mod(Cur, d, m, Devices)
                Rx == zmk_hid_gaming_register_mod(Cur, d, m, {})
                Ux == zmk_hid_gaming_unregister_mod(Cur, d, m, {})
            IN /\ R.reports[d].modifiers \in Byte
               /\ U.reports[d].modifiers \in Byte
               /\ \A n \in 0 .. 7 :
                      /\ Bit(R.reports[d].modifiers, n) = 1 <=> (Bit(old, n) = 1 \/ Bit(m, n) = 1)
                      /\ Bit(U.reports[d].modifiers, n) = 1 <=> (Bit(old, n) = 1 /\ Bit(m, n) = 0)
               /\ zmk_hid_gaming_register_mod(R, d, m, Devices).reports = R.reports
               /\ zmk_hid_gaming_unregister_mod(U, d, m, Devices).reports = U.reports
               /\ OnlyModifiersOf(R, d) /\ OneSendOf(R, d)
               /\ OnlyModifiersOf(U, d) /\ OneSendOf(U, d)
               \* a refused send changes the return value only
               /\ Rx.reports = R.reports /\ Rx.sent = R.sent /\ Rx.pressed = R.pressed
               /\ Ux.reports = U.reports /\ Ux.sent = U.sent /\ Ux.pressed = U.pressed

\* A modifier has been registered on GROUP_REST: the one buffer sent for it
\* carries the bit, and the keys held on GROUP_YU are as they were.
C18_Witness ==
    /\ sys_init_done
    /\ Len(sent) = 1
    /\ sent[1].device_id = REST
    /\ sent[1].report[2] # 0
    /\ gaming_reports[REST].modifiers = sent[1].report[2]
    /\ Occupied(KeysOf(YU)) >= 1

(***************************************************************************)
(* C19.  In every state after init, clear(d) leaves every key slot of     *)
(* device d zero, leaves its modifier byte and report id as they were,    *)
(* changes no other report and not the tracking table, and hands the      *)
(* transport exactly one buffer: device d's report with the slots zeroed. *)
(***************************************************************************)
C19_ClearKeepsModifiers ==
    sys_init_done =>
        \A d \in {YU, REST}, oks \in AllOrNone :
            LET M == zmk_hid_gaming_keyboard_clear(Cur, d, oks)
            IN /\ M.reports[d].keys = ZeroKeys
               /\ M.reports[d].modifiers = gaming_reports[d].modifiers
               /\ M.reports[d].report_id = gaming_reports[d].report_id
               /\ OnlyKeysOf(M, d)
               /\ OneSendOf(M, d)
               /\ M.ret = RET_VOID

\* GROUP_REST has been cleared while it holds a modifier: the one buffer
\* sent for it carries the modifier and no key.
C19_Witness ==
    /\ sys_init_done
    /\ Len(sent) = 1
    /\ sent[1].device_id = REST
    /\ sent[1].report = ClearedBuffer(REST, gaming_reports[REST].modifiers)
    /\ gaming_reports[REST].modifiers # 0
    /\ ret = RET_VOID

(***************************************************************************)
(* C20.  In every state after init, clear_all() leaves every device i's   *)
(* report with id BASE + i and every key slot zero.  The modifier byte is *)
(* the one the device had: it is zero only where it was zero before.      *)
(***************************************************************************)
ClearAllLeaves(zero_mods) ==
    sys_init_done =>
        \A oks \in AllOrNone :
            LET M == zmk_hid_gaming_keyboard_clear_all(Cur, oks)
            IN \A d \in Devices :
                   M.reports[d] =
                       [EmptyReport(d) EXCEPT !.modifiers =
                            IF zero_mods THEN 0 ELSE gaming_reports[d].modifiers]

ClassifierArgs == (0 .. 99) \cup {255, 256, 65535, 65536, 2147483647}

\* The positions a case label sends to a device other than GROUP_REST.
RuledPositions ==
    {2, 14, 26, 6, 7, 18, 19, 30, 31, 37, 38, 39, 40, 41, 42, 3, 15, 4, 16, 28}

ClassifierTotal ==
    \A p \in ClassifierArgs :
        LET d == zmk_hid_gaming_get_device_for_position(p)
        IN /\ d \in Devices
           /\ d = zmk_hid_gaming_get_device_for_position(p)
           /\ p \notin RuledPositions => d = REST
           /\ p \in RuledPositions => d # REST

\* In whatever state a position call is made, it reaches the device the
\* classifier names for the position, and no other.
C21_ClassifierTotal ==
    /\ ClassifierTotal
    /\ \A p \in ValidPositionArgs :
           LET d == zmk_hid_gaming_get_device_for_position(p)
               M == zmk_hid_gaming_position_press(Cur, p, K + 1, Devices)
           IN /\ \A i \in 1 .. Len(M.sent) : M.sent[i].device_id = d
              /\ \A e \in Devices \ {d} : M.reports[e] = gaming_reports[e]

\* The classifier has routed a press at position 6 to GROUP_YU: the key is
\* in that device's slots and in no other device's.
C21_Witness ==
    /\ sys_init_done
    /\ TrackedAt(6) # 0
    /\ KeysOf(zmk_hid_gaming_get_device_for_position(6))[0] = TrackedAt(6)
    /\ \A d \in Devices \ {YU} : KeysOf(d) = ZeroKeys
    /\ Len(sent) = 1
    /\ sent[1].device_id = YU

(***************************************************************************)
(* C22.  Before init has run nothing has been handed to the transport.     *)
(* Init leaves every device i with report {id = BASE + i, mods = 0,        *)
(* reserved = 0, all keys 0} and every tracking entry none, and hands the  *)
(* transport 3 rounds of buffers, each round one empty report per device   *)
(* in ascending device order.  The keepalive timer is started after the    *)
(* third round, so those buffers are the whole of what init's call sends.  *)
(***************************************************************************)
C22_InitBurst ==
    ~sys_init_done =>
        /\ sent = <<>>
        /\ \A oks \in AllOrNone :
               LET M == zmk_hid_gaming_init(Cur, oks)
               IN /\ M.reports = [d \in Devices |-> EmptyReport(d)]
                  /\ M.pressed = NoneTracked
                  /\ M.ret = RET_OK
                  /\ Len(M.sent) = InitRounds * ZMK_GAMING_DEVICE_COUNT
                  /\ \A j \in 0 .. (InitRounds - 1) :
                         OnePerDeviceFrom(M, 1 + j * ZMK_GAMING_DEVICE_COUNT, TRUE)

\* Init has just run: the three rounds are what was sent and the statics
\* are fresh.
C22_Witness ==
    /\ Fresh
    /\ ret = RET_OK
    /\ Len(sent) = InitRounds * ZMK_GAMING_DEVICE_COUNT
    /\ sent[1].device_id = 0
    /\ sent[InitRounds * ZMK_GAMING_DEVICE_COUNT].device_id = ZMK_GAMING_DEVICE_COUNT - 1

(***************************************************************************)
(* Key events and keepalive ticks on two execution contexts.  The file has *)
(* no lock, so when the work item that runs the tick preempts a call of    *)
(* the key-event context, it reads the reports between two of the call's   *)
(* stores.  The calls are followed statement by statement; a tick runs to  *)
(* completion where it falls.                                              *)
(***************************************************************************)
RaceDevice == ZMK_GAMING_DEVICE_GROUP_YU

Calling(op, at) == call.op = op /\ call.at = at

\* The key-event context enters press, release or clear.
RaceCall(op, key) ==
    /\ sys_init_done /\ call = Idle
    /\ call' = [op |-> op, device_id |-> RaceDevice, key |-> key, i |-> 0,
                at |-> IF op = "clear" THEN "zero" ELSE "scan"]
    /\ UNCHANGED <<gaming_mode_active, gaming_reports, gaming_pressed_keys,
                   sys_init_done, ret, sent, delivered, quiet>>

\* One iteration of the loop of zmk_hid_gaming_keyboard_press.
RacePressStep ==
    /\ Calling("press", "scan")
    /\ LET d == call.device_id
           i == call.i
       IN IF i >= ZMK_GAMING_MAX_KEYS_PER_DEVICE
          THEN /\ ret' = RET_ENOMEM /\ call' = Idle
               /\ UNCHANGED gaming_reports
          ELSE IF gaming_reports[d].keys[i] = call.key
          THEN /\ ret' = RET_OK /\ call' = Idle
               /\ UNCHANGED gaming_reports
          ELSE IF gaming_reports[d].keys[i] = 0
          THEN /\ gaming_reports' = [gaming_reports EXCEPT ![d].keys[i] = U8(call.key)]
               /\ call' = [call EXCEPT !.at = "send"]
               /\ UNCHANGED ret
          ELSE /\ call' = [call EXCEPT !.i = i + 1]
               /\ UNCHANGED <<gaming_reports, ret>>
    /\ UNCHANGED <<gaming_mode_active, gaming_pressed_keys, sys_init_done, sent,
                   delivered, quiet>>

\* One iteration of the scan of zmk_hid_gaming_keyboard_release, or one
\* store of its compaction: keys[j] = keys[j + 1], and keys[K - 1] = 0 last.
RaceReleaseStep ==
    /\ call.op = "release" /\ call.at \in {"scan", "shift"}
    /\ LET d == call.device_id
           i == call.i
       IN IF call.at = "scan"
          THEN IF i >= ZMK_GAMING_MAX_KEYS_PER_DEVICE
               THEN /\ ret' = RET_OK /\ call' = Idle
                    /\ UNCHANGED gaming_reports
               ELSE IF gaming_reports[d].keys[i] = call.key
               THEN /\ call' = [call EXCEPT !.at = "shift"]
                    /\ UNCHANGED <<gaming_reports, ret>>
               ELSE /\ call' = [call EXCEPT !.i = i + 1]
                    /\ UNCHANGED <<gaming_reports, ret>>
          ELSE IF i < ZMK_GAMING_MAX_KEYS_PER_DEVICE - 1
               THEN /\ gaming_reports' =
                           [gaming_reports EXCEPT ![d].keys[i] = gaming_reports[d].keys[i + 1]]
                    /\ call' = [call EXCEPT !.i = i + 1]
                    /\ UNCHANGED ret
               ELSE /\ gaming_reports' =
                           [gaming_reports EXCEPT
                                ![d].keys[ZMK_GAMING_MAX_KEYS_PER_DEVICE - 1] = 0]
                    /\ call' = [call EXCEPT !.at = "send"]
                    /\ UNCHANGED ret
    /\ UNCHANGED <<gaming_mode_active, gaming_pressed_keys, sys_init_done, sent,
                   delivered, quiet>>

\* One store of the memset of zmk_hid_gaming_keyboard_clear.
RaceClearStep ==
    /\ Calling("clear", "zero")
    /\ LET d == call.device_id
           i == call.i
       IN IF i < ZMK_GAMING_MAX_KEYS_PER_DEVICE
          THEN /\ gaming_reports' = [gaming_reports EXCEPT ![d].keys[i] = 0]
               /\ call' = [call EXCEPT !.i = i + 1]
          ELSE /\ call' = [call EXCEPT !.at = "send"]
               /\ UNCHANGED gaming_reports
    /\ UNCHANGED <<gaming_mode_active, gaming_pressed_keys, sys_init_done, ret, sent,
                   delivered, quiet>>

\* The call's zmk_hid_gaming_send_report, and its return.
RaceSend(oks) ==
    /\ call # Idle /\ call.at = "send"
    /\ LET M == zmk_hid_gaming_send_report(Cur, call.device_id, oks)
       IN /\ gaming_reports' = M.reports
          /\ sent' = M.sent
          /\ ret' = IF call.op = "clear" THEN RET_VOID ELSE M.ret
    /\ call' = Idle
    /\ UNCHANGED <<gaming_mode_active, gaming_pressed_keys, sys_init_done, delivered,
                   quiet>>

RaceNext ==
    \/ \E oks \in AllOrNone : SysInit(oks, FALSE)
    \/ \E k \in KeyCodes : RaceCall("press", k)
    \/ \E k \in KeyCodes : RaceCall("release", k)
    \/ RaceCall("clear", 0)
    \/ RacePressStep
    \/ RaceReleaseStep
    \/ RaceClearStep
    \/ \E oks \in AllOrNone : RaceSend(oks)
    \/ \E oks \in AllOrNone : KeepaliveTick(oks, FALSE)

RaceSpec == Init /\ [][RaceNext]_vars

(***************************************************************************)
(* C23.  With ticks falling between the statements of press, release and   *)
(* clear, every buffer handed to the transport has key bytes with no       *)
(* duplicate non-zero key and no zero byte before a non-zero one.          *)
(***************************************************************************)
BufferKeys(buf) == [i \in Slots |-> buf[4 + i]]

C23_SnapshotsKeepSlotInvariant ==
    \A n \in 1 .. Len(sent) :
        /\ NoDuplicate(BufferKeys(sent[n].report))
        /\ NoGap(BufferKeys(sent[n].report))

(***************************************************************************)
(* C24.  In every state after init in which the activation flag is false,  *)
(* every device's key slots are all zero, press and position_press change  *)
(* no report and hand nothing to the transport, and a keepalive tick hands *)
(* nothing to the transport.                                               *)
(***************************************************************************)
C24_FlagDisablesSubsystem ==
    (sys_init_done /\ ~gaming_mode_active) =>
        /\ \A d \in Devices : KeysOf(d) = ZeroKeys
        /\ \A k \in KeyCodes, oks \in AllOrNone :
               /\ LET M == zmk_hid_gaming_keyboard_press(Cur, YU, k, oks)
                  IN M.reports = gaming_reports /\ M.sent = <<>>
               /\ \A p \in ValidPositionArgs :
                      LET M == zmk_hid_gaming_position_press(Cur, p, k, oks)
                      IN M.reports = gaming_reports /\ M.sent = <<>>
        /\ \A oks \in AllOrNone :
               gaming_hid_keepalive_work_handler(Cur, oks).sent = <<>>

(***************************************************************************)
(* C25.  A key in a device's slots is tracked when some position that the  *)
(* classifier sends to that device remembers it.  Init leaves every slot   *)
(* key tracked; from a state where every slot key is tracked, a            *)
(* position_press at a position whose entry is none, and any               *)
(* position_release, leave every slot key tracked.  A second               *)
(* position_press at the same position with another key, without a         *)
(* release in between, overwrites the entry: the release that follows      *)
(* removes the second key, and the first stays in the report, tracked by   *)
(* no position.                                                            *)
(***************************************************************************)
DeviceOfPosition == [p \in PositionRange |-> zmk_hid_gaming_get_device_for_position(p)]

EveryKeyTracked(M) ==
    \A d \in {YU, REST} :
        \A k \in HeldKeys(M.reports[d].keys) :
            \E p \in PositionRange : DeviceOfPosition[p] = d /\ M.pressed[p + 1] = k

\* position_press(p, k1), position_press(p, k2), position_release(p)
PressPressRelease(M, p, k1, k2, oks) ==
    zmk_hid_gaming_position_release(
        zmk_hid_gaming_position_press(
            zmk_hid_gaming_position_press(M, p, k1, oks), p, k2, oks), p, oks)

\* As claimed: after the two presses and the release neither key remains.
C25_NoStuckKeys ==
    Fresh =>
        \A p \in ValidPositionArgs, k1 \in KeyCodes, k2 \in KeyCodes, oks \in AllOrNone :
            LET M == PressPressRelease(Cur, p, k1, k2, oks)
                held == HeldKeys(M.reports[DeviceOfPosition[p]].keys)
            IN k1 \notin held /\ k2 \notin held /\ EveryKeyTracked(M)

\* Amended.
C25_WellFormedNoStuckKeys ==
    /\ Fresh => EveryKeyTracked(Cur)
    /\ Fresh =>
           \A p \in ValidPositionArgs, k1 \in KeyCodes, k2 \in KeyCodes, oks \in AllOrNone :
               LET M == PressPressRelease(Cur, p, k1, k2, oks)
                   held == HeldKeys(M.reports[DeviceOfPosition[p]].keys)
               IN /\ k2 \notin held
                  /\ M.pressed[p + 1] = 0
                  /\ k1 # k2 => (k1 \in held /\ ~EveryKeyTracked(M))
                  /\ k1 = k2 => held = {}
    /\ (sys_init_done /\ EveryKeyTracked(Cur)) =>
           \A p \in ValidPositionArgs, oks \in AllOrNone :
               /\ EveryKeyTracked(zmk_hid_gaming_position_release(Cur, p, oks))
               /\ TrackedAt(p) = 0 =>
                      \A k \in PositionKeyArgs :
                          EveryKeyTracked(zmk_hid_gaming_position_press(Cur, p, k, oks))

\* Position 6 was pressed twice and released: no position remembers a key,
\* and one key is still in GROUP_YU's slots and in the report just sent.
C25_Witness ==
    /\ sys_init_done
    /\ gaming_pressed_keys = NoneTracked
    /\ Occupied(KeysOf(YU)) = 1
    /\ Len(sent) = 1
    /\ sent[1].device_id = YU
    /\ sent[1].report[4] = KeysOf(YU)[0]
    /\ sent[1].report[5] = 0
    /\ ret = RET_OK

(***************************************************************************)
(* C26.  In every state after init, after a position_press(p, k), whether  *)
(* it was accepted or rejected for want of a free slot, the key that the   *)
(* tracking table remembers for p is in a slot of device classify(p).      *)
(***************************************************************************)
TrackedKeyHeld(M, p) ==
    M.pressed[p + 1] # 0 =>
        M.pressed[p + 1] \in HeldKeys(M.reports[DeviceOfPosition[p]].keys)

C26_TrackedKeyIsHeld ==
    sys_init_done =>
        \A p \in ValidPositionArgs, k \in KeyCodes, oks \in AllOrNone :
            TrackedKeyHeld(zmk_hid_gaming_position_press(Cur, p, k, oks), p)

(***************************************************************************)
(* C27.  From the state init leaves, with positions 6 and 7 of GROUP_YU    *)
(* both pressed with the same key k, position_release(6) alone leaves k in *)
(* GROUP_YU's slots, and position_release(7) after it removes k.           *)
(***************************************************************************)
C27_RolloverAcrossPositions ==
    Fresh =>
        \A k \in KeyCodes, oks \in AllOrNone :
            LET both == zmk_hid_gaming_position_press(
                            zmk_hid_gaming_position_press(Cur, 6, k, oks), 7, k, oks)
                one == zmk_hid_gaming_position_release(both, 6, oks)
                none == zmk_hid_gaming_position_release(one, 7, oks)
            IN /\ k \in HeldKeys(both.reports[YU].keys)
               /\ k \in HeldKeys(one.reports[YU].keys)
               /\ k \notin HeldKeys(none.reports[YU].keys)

(***************************************************************************)
(* C28.  In every state after init, press, release, clear, register_mod    *)
(* and unregister_mod on device d, and position_press and position_release *)
(* at a position the classifier sends to d, leave the report of every      *)
(* other device as it was and hand the transport buffers of device d only; *)
(* the position calls at p change no tracking entry but p's, and the       *)
(* device calls change none.                                               *)
(***************************************************************************)
IsolatedTo(M, d) ==
    /\ \A e \in Devices \ {d} : M.reports[e] = gaming_reports[e]
    /\ \A n \in 1 .. Len(M.sent) : M.sent[n].device_id = d

EntriesKeptBut(M, p) ==
    [M.pressed EXCEPT ![p + 1] = gaming_pressed_keys[p + 1]] = gaming_pressed_keys

IsolationKeys == {0, 1, K + 1}

C28_DeviceIsolation ==
    sys_init_done =>
        \A oks \in AllOrNone :
            /\ \A d \in {YU, REST} :
                   /\ \A k \in IsolationKeys :
                          LET P == zmk_hid_gaming_keyboard_press(Cur, d, k, oks)
                              R == zmk_hid_gaming_keyboard_release(Cur, d, k, oks)
                          IN /\ IsolatedTo(P, d) /\ P.pressed = gaming_pressed_keys
                             /\ IsolatedTo(R, d) /\ R.pressed = gaming_pressed_keys
                   /\ LET C == zmk_hid_gaming_keyboard_clear(Cur, d, oks)
                      IN IsolatedTo(C, d) /\ C.pressed = gaming_pressed_keys
                   /\ \A m \in ModArgs :
                          LET G == zmk_hid_gaming_register_mod(Cur, d, m, oks)
                              U == zmk_hid_gaming_unregister_mod(Cur, d, m, oks)
                          IN /\ IsolatedTo(G, d) /\ G.pressed = gaming_pressed_keys
                             /\ IsolatedTo(U, d) /\ U.pressed = gaming_pressed_keys
            /\ \A p \in ValidPositionArgs \cup {0} :
                   /\ \A k \in PositionKeyArgs :
                          LET P == zmk_hid_gaming_position_press(Cur, p, k, oks)
                          IN IsolatedTo(P, DeviceOfPosition[p]) /\ EntriesKeptBut(P, p)
                   /\ LET R == zmk_hid_gaming_position_release(Cur, p, oks)
                      IN IsolatedTo(R, DeviceOfPosition[p]) /\ EntriesKeptBut(R, p)

\* A key has been released on GROUP_YU while GROUP_REST holds a modifier and
\* position 7 is tracked: only GROUP_YU's report was sent, and the modifier
\* and the entry are still there.
C28_Witness ==
    /\ sys_init_done
    /\ Len(sent) = 1
    /\ sent[1].device_id = YU
    /\ sent[1].report[2] = 0
    /\ gaming_reports[REST].modifiers # 0
    /\ TrackedAt(7) # 0
    /\ TrackedAt(6) = 0
    /\ Occupied(KeysOf(YU)) = 1

(***************************************************************************)
(* C29.  In every state after init, press, release, register_mod,          *)
(* unregister_mod, position_press and position_release return 0, -EINVAL   *)
(* or -ENOMEM and nothing else, whatever the transport answers; a call     *)
(* that changed a report returns 0.                                        *)
(***************************************************************************)
CallerResults == {RET_OK, RET_EINVAL, RET_ENOMEM}

ReturnsAsClaimed(M) ==
    /\ M.ret \in CallerResults
    /\ M.reports # gaming_reports => M.ret = RET_OK

C29_TransportErrorNotReturned ==
    sys_init_done =>
        \A oks \in AllOrNone :
            /\ \A c \in KeyCallArgs :
                   /\ ReturnsAsClaimed(zmk_hid_gaming_keyboard_press(Cur, c[1], c[2], oks))
                   /\ ReturnsAsClaimed(zmk_hid_gaming_keyboard_release(Cur, c[1], c[2], oks))
            /\ \A d \in ModDeviceArgs, m \in ModArgs :
                   /\ ReturnsAsClaimed(zmk_hid_gaming_register_mod(Cur, d, m, oks))
                   /\ ReturnsAsClaimed(zmk_hid_gaming_unregister_mod(Cur, d, m, oks))
            /\ \A c \in PositionCallArgs :
                   ReturnsAsClaimed(zmk_hid_gaming_position_press(Cur, c[1], c[2], oks))
            /\ \A p \in PositionArgs :
                   ReturnsAsClaimed(zmk_hid_gaming_position_release(Cur, p, oks))

(***************************************************************************)
(* C30.  In every state after init, clear_all and set_active leave every   *)
(* tracking entry as it was.  For a position p with a key remembered, a    *)
(* position_release(p) made right after a clear_all, or right after a      *)
(* deactivate/activate cycle, changes no report, hands nothing to the      *)
(* transport, returns 0, and sets p's entry to none and no other.          *)
(***************************************************************************)
\* set_active(false) then set_active(true)
ActiveCycle(M, oks) ==
    zmk_hid_gaming_set_active(zmk_hid_gaming_set_active(M, FALSE, oks), TRUE, oks)

LateRelease(C, p, oks) ==
    LET R == zmk_hid_gaming_position_release(C, p, oks)
    IN /\ R.ret = RET_OK
       /\ R.reports = C.reports
       /\ R.sent = C.sent
       /\ R.pressed = [gaming_pressed_keys EXCEPT ![p + 1] = 0]

C30_ResetKeepsTracking ==
    sys_init_done =>
        \A oks \in AllOrNone :
            LET A == zmk_hid_gaming_keyboard_clear_all(Cur, oks)
                B == ActiveCycle(Cur, oks)
            IN /\ A.pressed = gaming_pressed_keys
               /\ B.pressed = gaming_pressed_keys
               /\ \A a \in BOOLEAN :
                      zmk_hid_gaming_set_active(Cur, a, oks).pressed = gaming_pressed_keys
               /\ \A d \in Devices : A.reports[d].keys = ZeroKeys /\ B.reports[d].keys = ZeroKeys
               /\ \A p \in ValidPositionArgs :
                      TrackedAt(p) # 0 => (LateRelease(A, p, oks) /\ LateRelease(B, p, oks))

\* Position 6 has been released after a clear: it returned 0 and sent
\* nothing; position 7 is still remembered although every slot is zero.
C30_Witness ==
    /\ sys_init_done
    /\ TrackedAt(6) = 0
    /\ TrackedAt(7) # 0
    /\ \A d \in Devices : KeysOf(d) = ZeroKeys
    /\ ret = RET_OK
    /\ sent = <<>>
====
